---- MODULE Spec2Model ----
(***************************************************************************)
(* Model of reddit.py: a poller that fetches the newest posts of one       *)
(* subreddit, keeps the unseen posts whose flair contains a keyword,       *)
(* notifies them oldest first and remembers their ids in processed_posts,  *)
(* which an autosave thread and the signal handler write to a JSON file.   *)
(*                                                                         *)
(* Three execution contexts share processed_posts and lock:                *)
(*   - the main thread running main() (lines 168-194);                     *)
(*   - the daemon thread running autosave_loop() (lines 140-149);          *)
(*   - handle_shutdown (lines 154-163), which CPython runs ON THE MAIN     *)
(*     THREAD, on top of whatever frame the main thread is executing.      *)
(* The main thread is therefore a stack of frames: main() at the bottom    *)
(* and one handle_shutdown frame per signal being handled above it.        *)
(***************************************************************************)
EXTENDS Integers, Sequences, FiniteSets, TLC

\* ---------------------------------------------------------------- bounds
\* Number of posts the subreddit can hold during the run (post 1 is the
\* oldest, post NumPosts the newest).
NumPosts == 3
\* Number of termination signals the environment delivers at most.
MaxSignals == 1

\* ------------------------------------------------------- program constants
\* stop_after_attempt(5) of fetch_new_posts
FETCH_ATTEMPTS == 5
\* stop_after_attempt(3) of send_notification
NOTIFY_ATTEMPTS == 3
\* subreddit.new(limit=20)
LIMIT == 20

\* ------------------------------------------------------------- strings
\* A string is the sequence of its characters.
Str_media      == <<"m", "e", "d", "i", "a">>
Str_Media      == <<"M", "e", "d", "i", "a">>
Str_MEDIA      == <<"M", "E", "D", "I", "A">>
Str_Discussion == <<"D", "i", "s", "c", "u", "s", "s", "i", "o", "n">>
Str_SocialMedia == <<"S", "o", "c", "i", "a", "l", " ", "M", "e", "d", "i", "a", "!">>
Str_Medi       == <<"M", "e", "d", "i">>
Str_Meta       == <<"M", "e", "t", "a">>
Str_Empty      == <<>>

\* str.lower() on one character.
LowerChar(c) ==
    CASE c = "M" -> "m"
      [] c = "E" -> "e"
      [] c = "D" -> "d"
      [] c = "I" -> "i"
      [] c = "A" -> "a"
      [] c = "S" -> "s"
      [] c = "T" -> "t"
      [] OTHER -> c

\* str.lower()
Lower(s) == [i \in 1..Len(s) |-> LowerChar(s[i])]

\* Python's `needle in hay` on strings: hay[i:i+len(needle)] == needle for
\* some offset i.
StrIn(needle, hay) ==
    \E i \in 0..(Len(hay) - Len(needle)) :
        \A k \in 1..Len(needle) : hay[i + k] = needle[k]

\* A flair is absent (link_flair_text is None) or a string.
NoFlair == [absent |-> TRUE, text |-> <<>>]
Flair(s) == [absent |-> FALSE, text |-> s]

\* (s.link_flair_text or ""): None and "" both give "".
FlairOrEmpty(f) == IF f.absent \/ f.text = <<>> THEN <<>> ELSE f.text

\* Mutant of FlairMatches: the flair must equal the keyword.
FlairMatches_Exact(keyword, f) == Lower(FlairOrEmpty(f)) = keyword

\* FLAIR_KEYWORD in (s.link_flair_text or "").lower()
FlairMatches(keyword, f) == StrIn(keyword, Lower(FlairOrEmpty(f)))

\* os.getenv("FLAIR_KEYWORD", "media").lower(): the environment variable is
\* unset (absent) or a string.
EnvUnset == [absent |-> TRUE, text |-> <<>>]
FlairKeywordOf(env) == Lower(IF env.absent THEN Str_media ELSE env.text)

\* ---------------------------------------------------------------- posts
\* Submission ids are strings; post n has the id IdOf(n).
IdStr == <<"1", "2", "3", "4", "5", "6">>
IdOf(n) == IdStr[n]
Ids == {IdOf(n) : n \in 1..NumPosts}

\* The flairs of the posts of the run: the end-to-end scenario of the
\* program's description (1: Media, 2: Discussion, 3: Media), then others.
FlairTable ==
    <<Flair(Str_Media), Flair(Str_Discussion), Flair(Str_Media),
      Flair(Str_SocialMedia), NoFlair, Flair(Str_MEDIA)>>

\* The flairs a post can carry at all.
Flairs ==
    {NoFlair, Flair(Str_Empty), Flair(Str_media), Flair(Str_Media),
     Flair(Str_MEDIA), Flair(Str_Discussion), Flair(Str_SocialMedia),
     Flair(Str_Medi), Flair(Str_Meta)}

\* The values the FLAIR_KEYWORD environment variable can have.
KeywordEnvs == {EnvUnset, Flair(Str_Media), Flair(Str_MEDIA), Flair(Str_Meta)}

\* The posts of S, newest (largest number) first.
RECURSIVE NewestFirst(_)
NewestFirst(S) ==
    IF S = {} THEN <<>>
    ELSE LET n == CHOOSE x \in S : \A y \in S : y <= x
         IN <<n>> \o NewestFirst(S \ {n})

\* subreddit.new(limit=20): at most LIMIT posts, newest first.
Listings ==
    {NewestFirst(S) : S \in {T \in SUBSET (1..NumPosts) : Cardinality(T) <= LIMIT}}

\* ------------------------------------------------------------ sequences
Range(s) == {s[i] : i \in 1..Len(s)}

\* Mutant of Reversed: the list is iterated as fetched, newest first.
Reversed_Forgotten(s) == s

\* reversed(seq)
Reversed(s) == [i \in 1..Len(s) |-> s[Len(s) + 1 - i]]

\* list(a_set): the elements of the set, each once, in the order the set
\* happens to iterate them (any order).
ListsOf(S) ==
    {l \in [1..Cardinality(S) -> S] : Range(l) = S}

\* ----------------------------------------------------------------- JSON
\* Mutant of JsonChunk: the separator between two strings is left out.
JsonChunk_NoSep(l, k) ==
    IF l = <<>> THEN <<"[", "]">>
    ELSE IF k = 1 THEN <<"[", l[1]>>
    ELSE IF k <= Len(l) THEN <<l[k]>>
    ELSE <<"]">>

\* The text of the file is a sequence of tokens: "[", "]", "," and the
\* (quoted) id strings.
\* json.dump(list, f) writes the text in chunks: "[]" for the empty list;
\* otherwise "[" with the first string, then "," with each next string,
\* then "]". JsonChunk(l, k) is chunk k.
JsonChunk(l, k) ==
    IF l = <<>> THEN <<"[", "]">>
    ELSE IF k = 1 THEN <<"[", l[1]>>
    ELSE IF k <= Len(l) THEN <<",", l[k]>>
    ELSE <<"]">>

NumChunks(l) == IF l = <<>> THEN 1 ELSE Len(l) + 1

\* The text of the first n chunks.
RECURSIVE JsonWritten(_, _)
JsonWritten(l, n) ==
    IF n = 0 THEN <<>> ELSE JsonWritten(l, n - 1) \o JsonChunk(l, n)

\* json.dump(list, f) that writes every chunk.
JsonDump(l) == JsonWritten(l, NumChunks(l))

IsPunct(t) == t \in {"[", "]", ","}

\* Whether json.load accepts the text.
JsonValid(t) ==
    /\ Len(t) >= 2
    /\ t[1] = "["
    /\ t[Len(t)] = "]"
    /\ \/ Len(t) = 2
       \/ /\ Len(t) % 2 = 1
          /\ \A i \in 2..(Len(t) - 1) :
                IF i % 2 = 0 THEN ~IsPunct(t[i]) ELSE t[i] = ","

\* json.load(f) of an accepted text: the list of its strings.
RECURSIVE JsonLoad(_)
JsonLoad(t) ==
    IF t = <<>> THEN <<>>
    ELSE (IF IsPunct(t[1]) THEN <<>> ELSE <<t[1]>>) \o JsonLoad(Tail(t))

\* ----------------------------------------------------------- state store
NoFile == [exists |-> FALSE, data |-> <<>>]
FileWith(t) == [exists |-> TRUE, data |-> t]

\* processed_posts = None (line 137) before main() has loaded it.
None == {"<None>"}

\* load_processed_posts(): the set of the file's list; the empty set when
\* the file is missing or json.load raises.
load_processed_posts(f) ==
    IF f.exists /\ JsonValid(f.data) THEN Range(JsonLoad(f.data)) ELSE {}

\* ----------------------------------------------------------------- state
VARIABLES
    FLAIR_KEYWORD,    \* line 55: the keyword, lower-cased, fixed at startup
    flairs,           \* the feed: flairs[n] is the flair of post n
    file,             \* PROCESSED_POSTS_FILE on disk
    processed_posts,  \* line 137: None, then the set of processed ids
    lock,             \* line 138: "free", or the thread that holds it
    stack,            \* the main thread's frames: main() and, above it, one
                      \* handle_shutdown frame per signal being handled
    apc,              \* where autosave_loop is
    signals,          \* number of signals delivered so far
    fetch_attempt,    \* tenacity's attempt number in fetch_new_posts
    notify_attempt,   \* tenacity's attempt number in send_notification
    media_posts,      \* line 176: the posts the last fetch selected
    idx,              \* position of the for loop in reversed(media_posts)
    fetched,          \* history: the listing the tick's fetch returned
    tickStart,        \* history: processed_posts when the tick began
    invoked,          \* history: ids send_notification was called for, this tick
    delivered,        \* history: ids whose send_notification returned, this run
    loaded,           \* history: what load_processed_posts returned at startup
    saved,            \* history: the set the last successful save was given
    saveFailed,       \* history: the last save attempt raised inside
    mainSaves,        \* history: calls of save_processed_posts on the main thread
    handlerOk         \* history: the last save of handle_shutdown wrote the file

vars ==
    <<FLAIR_KEYWORD, flairs, file, processed_posts, lock, stack, apc, signals,
      fetch_attempt, notify_attempt, media_posts, idx, fetched, tickStart,
      invoked, delivered, loaded, saved, saveFailed, mainSaves, handlerOk>>

config == <<FLAIR_KEYWORD, flairs>>
tickVars == <<fetch_attempt, notify_attempt, media_posts, idx, fetched, tickStart, invoked, delivered>>
saveHist == <<saved, saveFailed>>
exitHist == <<mainSaves, handlerOk>>

\* The frame the main thread is executing, and main()'s own frame.
Top == stack[Len(stack)]
Base == stack[1]
SetTop(p) == [stack EXCEPT ![Len(stack)] = p]

\* The process is gone: the main thread left main() (the daemon autosave
\* thread dies with it).
Exited == Base = "exited"

\* Statements of main() inside the try block of lines 172-188.
TryPcs == {"fetch", "notify", "acquire", "add", "except", "poll"}

\* Frames of the main thread that are inside a `with lock:` body.
MainLockedPcs == {"add", "f_open", "f_dump", "h_open", "h_dump"}

\* The submission object of post n.
Submission(n) == [id |-> IdOf(n), flair |-> flairs[n]]

\* Mutant of fetch_new_posts: the processed ids are not looked at.
RECURSIVE fetch_new_posts_NoDedup(_, _, _)
fetch_new_posts_NoDedup(listing, processed, keyword) ==
    IF listing = <<>> THEN <<>>
    ELSE (IF FlairMatches(keyword, listing[1].flair) THEN <<listing[1]>> ELSE <<>>)
         \o fetch_new_posts_NoDedup(Tail(listing), processed, keyword)

\* Mutant of fetch_new_posts: the flair is not looked at.
RECURSIVE fetch_new_posts_NoFlair(_, _, _)
fetch_new_posts_NoFlair(listing, processed, keyword) ==
    IF listing = <<>> THEN <<>>
    ELSE (IF listing[1].id \notin processed THEN <<listing[1]>> ELSE <<>>)
         \o fetch_new_posts_NoFlair(Tail(listing), processed, keyword)

\* lines 104-108: the posts of the listing that are not processed and whose
\* flair contains the keyword, in the listing's order.
RECURSIVE fetch_new_posts(_, _, _)
fetch_new_posts(listing, processed, keyword) ==
    IF listing = <<>> THEN <<>>
    ELSE (IF /\ listing[1].id \notin processed
             /\ FlairMatches(keyword, listing[1].flair)
          THEN <<listing[1]>> ELSE <<>>)
         \o fetch_new_posts(Tail(listing), processed, keyword)

\* The files the run can start from: none, one cut short by an earlier
\* crash, or an earlier run's save.
StartFiles ==
    {NoFile, FileWith(<<"[">>), FileWith(JsonDump(<<>>)), FileWith(JsonDump(<<IdOf(1)>>))}

Init ==
    /\ FLAIR_KEYWORD = FlairKeywordOf(EnvUnset)
    /\ flairs = [n \in 1..NumPosts |-> FlairTable[n]]
    /\ file \in StartFiles
    /\ processed_posts = None
    /\ lock = "free"
    /\ stack = <<"load">>
    /\ apc = "a_wait"
    /\ signals = 0
    /\ fetch_attempt = 1
    /\ notify_attempt = 1
    /\ media_posts = <<>>
    /\ idx = 0
    /\ fetched = <<>>
    /\ tickStart = {}
    /\ invoked = <<>>
    /\ delivered = {}
    /\ loaded = {}
    /\ saved = None
    /\ saveFailed = FALSE
    /\ mainSaves = 0
    /\ handlerOk = FALSE

\* ------------------------------------------------- save_processed_posts
\* line 92: open(..., "w") creates or truncates the file; when it raises,
\* the file is untouched and save_processed_posts logs and returns.
SaveOpen(ok) ==
    IF ok
    THEN /\ file' = FileWith(<<>>)
         /\ UNCHANGED saveHist
    ELSE /\ UNCHANGED <<file, saved>>
         /\ saveFailed' = TRUE

\* Mutant of SaveDump: the last chunk never reaches the file, and the save
\* reports success.
SaveDump_NoClose(ok, l, cut) ==
    /\ file' = FileWith(JsonWritten(l, IF ok THEN NumChunks(l) - 1 ELSE cut))
    /\ saved' = IF ok THEN processed_posts ELSE saved
    /\ saveFailed' = ~ok

\* line 93 and the close of line 92: json.dump(list(processed_posts), f)
\* writes the whole text, or raises after writing `cut` chunks of it.
SaveDump(ok, l, cut) ==
    IF ok
    THEN /\ file' = FileWith(JsonDump(l))
         /\ saved' = processed_posts
         /\ saveFailed' = FALSE
    ELSE /\ file' = FileWith(JsonWritten(l, cut))
         /\ saveFailed' = TRUE
         /\ UNCHANGED saved

\* ----------------------------------------------------------------- main
\* line 170: processed_posts = load_processed_posts(); then the loop begins.
MainLoad ==
    /\ Top = "load"
    /\ processed_posts' = load_processed_posts(file)
    /\ loaded' = load_processed_posts(file)
    /\ tickStart' = load_processed_posts(file)
    /\ stack' = SetTop("fetch")
    /\ UNCHANGED <<config, file, lock, apc, signals, fetch_attempt, notify_attempt,
                   media_posts, idx, fetched, invoked, delivered, saveHist, exitHist>>

\* Mutant of FetchOk: the for loop of line 177 runs inside `with lock:`.
FetchOk_HoldsLock ==
    /\ Top = "fetch"
    /\ lock = "free"
    /\ \E l \in Listings :
          LET listing == [i \in 1..Len(l) |-> Submission(l[i])]
              new_posts == fetch_new_posts(listing, processed_posts, FLAIR_KEYWORD)
          IN /\ fetched' = listing
             /\ media_posts' = new_posts
             /\ idx' = IF new_posts = <<>> THEN 0 ELSE 1
             /\ stack' = SetTop(IF new_posts = <<>> THEN "poll" ELSE "notify")
             /\ lock' = IF new_posts = <<>> THEN "free" ELSE "main"
    /\ fetch_attempt' = 1
    /\ notify_attempt' = 1
    /\ UNCHANGED <<config, file, processed_posts, apc, signals,
                   tickStart, invoked, delivered, loaded, saveHist, exitHist>>

\* line 176, an attempt of fetch_new_posts that returns: the listing is
\* filtered into media_posts and the for loop of line 177 starts (or, with
\* nothing selected, the tick ends at line 188).
FetchOk ==
    /\ Top = "fetch"
    /\ \E l \in Listings :
          LET listing == [i \in 1..Len(l) |-> Submission(l[i])]
              new_posts == fetch_new_posts(listing, processed_posts, FLAIR_KEYWORD)
          IN /\ fetched' = listing
             /\ media_posts' = new_posts
             /\ idx' = IF new_posts = <<>> THEN 0 ELSE 1
             /\ stack' = SetTop(IF new_posts = <<>> THEN "poll" ELSE "notify")
    /\ fetch_attempt' = 1
    /\ notify_attempt' = 1
    /\ UNCHANGED <<config, file, processed_posts, lock, apc, signals,
                   tickStart, invoked, delivered, loaded, saveHist, exitHist>>

\* Mutant of FetchFail: tenacity allows one attempt more.
FetchFail_OneMore ==
    /\ Top = "fetch"
    /\ IF fetch_attempt < FETCH_ATTEMPTS + 1
       THEN /\ fetch_attempt' = fetch_attempt + 1
            /\ UNCHANGED stack
       ELSE /\ UNCHANGED fetch_attempt
            /\ stack' = SetTop("except")
    /\ UNCHANGED <<config, file, processed_posts, lock, apc, signals, notify_attempt,
                   media_posts, idx, fetched, tickStart, invoked, delivered, loaded,
                   saveHist, exitHist>>

\* line 176, an attempt of fetch_new_posts that raises: tenacity tries again
\* (line 101) until FETCH_ATTEMPTS attempts have failed, then raises
\* RetryError, which line 183 catches.
FetchFail ==
    /\ Top = "fetch"
    /\ IF fetch_attempt < FETCH_ATTEMPTS
       THEN /\ fetch_attempt' = fetch_attempt + 1
            /\ UNCHANGED stack
       ELSE /\ UNCHANGED fetch_attempt
            /\ stack' = SetTop("except")
    /\ UNCHANGED <<config, file, processed_posts, lock, apc, signals, notify_attempt,
                   media_posts, idx, fetched, tickStart, invoked, delivered, loaded,
                   saveHist, exitHist>>

\* The submission the for loop of line 177 is at.
Current == Reversed(media_posts)[idx]

\* The ids send_notification has been called for, with this call.
InvokedNow == IF notify_attempt = 1 THEN Append(invoked, Current.id) ELSE invoked

\* line 178, an attempt of send_notification that returns.
NotifyOk ==
    /\ Top = "notify"
    /\ invoked' = InvokedNow
    /\ delivered' = delivered \cup {Current.id}
    /\ notify_attempt' = 1
    /\ stack' = SetTop("acquire")
    /\ UNCHANGED <<config, file, processed_posts, lock, apc, signals, fetch_attempt,
                   media_posts, idx, fetched, tickStart, loaded, saveHist, exitHist>>

\* Mutant of NotifyFail: when the attempts are exhausted the submission is
\* marked processed all the same and the loop goes on.
NotifyFail_MarksProcessed ==
    /\ Top = "notify"
    /\ invoked' = InvokedNow
    /\ IF notify_attempt < NOTIFY_ATTEMPTS
       THEN /\ notify_attempt' = notify_attempt + 1
            /\ UNCHANGED <<stack, idx, processed_posts>>
       ELSE /\ notify_attempt' = 1
            /\ idx' = 0
            /\ processed_posts' = processed_posts \cup {Current.id}
            /\ stack' = SetTop("except")
    /\ UNCHANGED <<config, file, lock, apc, signals, fetch_attempt,
                   media_posts, fetched, tickStart, delivered, loaded, saveHist, exitHist>>

\* Mutant of NotifyFail: when the attempts are exhausted the for loop goes on
\* to the next submission.
NotifyFail_SkipsItem ==
    /\ Top = "notify"
    /\ invoked' = InvokedNow
    /\ IF notify_attempt < NOTIFY_ATTEMPTS
       THEN /\ notify_attempt' = notify_attempt + 1
            /\ UNCHANGED <<stack, idx>>
       ELSE /\ notify_attempt' = 1
            /\ IF idx < Len(media_posts)
               THEN /\ idx' = idx + 1
                    /\ UNCHANGED stack
               ELSE /\ UNCHANGED idx
                    /\ stack' = SetTop("poll")
    /\ UNCHANGED <<config, file, processed_posts, lock, apc, signals, fetch_attempt,
                   media_posts, fetched, tickStart, delivered, loaded, saveHist, exitHist>>

\* line 178, an attempt of send_notification that raises: tenacity tries
\* again (line 119) until NOTIFY_ATTEMPTS attempts have failed, then raises
\* RetryError out of the for loop, to line 183.
NotifyFail ==
    /\ Top = "notify"
    /\ invoked' = InvokedNow
    /\ IF notify_attempt < NOTIFY_ATTEMPTS
       THEN /\ notify_attempt' = notify_attempt + 1
            /\ UNCHANGED <<stack, idx>>
       ELSE /\ notify_attempt' = 1
            /\ idx' = 0
            /\ stack' = SetTop("except")
    /\ UNCHANGED <<config, file, processed_posts, lock, apc, signals, fetch_attempt,
                   media_posts, fetched, tickStart, delivered, loaded, saveHist, exitHist>>

\* Mutant of MarkAcquire: the lock is taken without waiting for it.
MarkAcquire_NoWait ==
    /\ Top = "acquire"
    /\ lock' = "main"
    /\ stack' = SetTop("add")
    /\ UNCHANGED <<config, file, processed_posts, apc, signals, tickVars, loaded, saveHist, exitHist>>

\* line 179: with lock (acquire).
MarkAcquire ==
    /\ Top = "acquire"
    /\ lock = "free"
    /\ lock' = "main"
    /\ stack' = SetTop("add")
    /\ UNCHANGED <<config, file, processed_posts, apc, signals, tickVars, loaded, saveHist, exitHist>>

\* Mutant of MarkAdd: the whole batch is marked once one submission is sent.
MarkAdd_MarksBatch ==
    /\ Top = "add"
    /\ processed_posts' = processed_posts \cup {media_posts[i].id : i \in 1..Len(media_posts)}
    /\ lock' = "free"
    /\ IF idx < Len(media_posts)
       THEN /\ idx' = idx + 1
            /\ stack' = SetTop("notify")
       ELSE /\ UNCHANGED idx
            /\ stack' = SetTop("poll")
    /\ UNCHANGED <<config, file, apc, signals, fetch_attempt, notify_attempt, media_posts,
                   fetched, tickStart, invoked, delivered, loaded, saveHist, exitHist>>

\* Mutant of MarkAdd: the set is replaced by the submission's id.
MarkAdd_Replaces ==
    /\ Top = "add"
    /\ processed_posts' = {Current.id}
    /\ lock' = "free"
    /\ IF idx < Len(media_posts)
       THEN /\ idx' = idx + 1
            /\ stack' = SetTop("notify")
       ELSE /\ UNCHANGED idx
            /\ stack' = SetTop("poll")
    /\ UNCHANGED <<config, file, apc, signals, fetch_attempt, notify_attempt, media_posts,
                   fetched, tickStart, invoked, delivered, loaded, saveHist, exitHist>>

\* Mutant of MarkAdd: the id is not added.
MarkAdd_Forgets ==
    /\ Top = "add"
    /\ UNCHANGED processed_posts
    /\ lock' = "free"
    /\ IF idx < Len(media_posts)
       THEN /\ idx' = idx + 1
            /\ stack' = SetTop("notify")
       ELSE /\ UNCHANGED idx
            /\ stack' = SetTop("poll")
    /\ UNCHANGED <<config, file, apc, signals, fetch_attempt, notify_attempt, media_posts,
                   fetched, tickStart, invoked, delivered, loaded, saveHist, exitHist>>

\* lines 180-181: processed_posts.add(submission.id), release, sleep(1),
\* then the next submission or the end of the tick (line 188).
MarkAdd ==
    /\ Top = "add"
    /\ processed_posts' = processed_posts \cup {Current.id}
    /\ lock' = "free"
    /\ IF idx < Len(media_posts)
       THEN /\ idx' = idx + 1
            /\ stack' = SetTop("notify")
       ELSE /\ UNCHANGED idx
            /\ stack' = SetTop("poll")
    /\ UNCHANGED <<config, file, apc, signals, fetch_attempt, notify_attempt, media_posts,
                   fetched, tickStart, invoked, delivered, loaded, saveHist, exitHist>>

\* The next iteration of `while True` begins.
NextTick ==
    /\ stack' = SetTop("fetch")
    /\ fetch_attempt' = 1
    /\ fetched' = <<>>
    /\ tickStart' = processed_posts
    /\ invoked' = <<>>
    /\ UNCHANGED <<config, file, processed_posts, lock, apc, signals, notify_attempt,
                   media_posts, idx, delivered, loaded, saveHist, exitHist>>

\* Mutant of TickFailed: the exception ends main().
TickFailed_Exits ==
    /\ Top = "except"
    /\ stack' = <<"exited">>
    /\ UNCHANGED <<config, file, processed_posts, lock, apc, signals, tickVars, loaded,
                   saveHist, exitHist>>

\* lines 183-188: the exception is logged, sleep(MIN_DELAY), sleep(POLL_INTERVAL).
TickFailed ==
    /\ Top = "except"
    /\ NextTick

\* line 188 after a tick that raised nothing: sleep(POLL_INTERVAL).
TickDone ==
    /\ Top = "poll"
    /\ NextTick

\* lines 190-193, entered when SystemExit leaves the try block, where
\* processed_posts has been set: with lock (acquire).
FinallyAcquire ==
    /\ Top = "f_acquire"
    /\ lock = "free"
    /\ lock' = "main"
    /\ stack' = SetTop("f_open")
    /\ UNCHANGED <<config, file, processed_posts, apc, signals, tickVars, loaded, saveHist, exitHist>>

FinallyOpen ==
    /\ Top = "f_open"
    /\ \E ok \in BOOLEAN :
          /\ SaveOpen(ok)
          /\ IF ok
             THEN /\ stack' = SetTop("f_dump")
                  /\ UNCHANGED lock
             ELSE /\ stack' = SetTop("exited")
                  /\ lock' = "free"
    /\ mainSaves' = mainSaves + 1
    /\ UNCHANGED <<config, processed_posts, apc, signals, tickVars, loaded, handlerOk>>

FinallyDump ==
    /\ Top = "f_dump"
    /\ \E ok \in BOOLEAN, l \in ListsOf(processed_posts) :
          \E cut \in 0..(NumChunks(l) - 1) : SaveDump(ok, l, cut)
    /\ lock' = "free"
    /\ stack' = SetTop("exited")
    /\ UNCHANGED <<config, processed_posts, apc, signals, tickVars, loaded, exitHist>>

\* ------------------------------------------------------------- autosave
\* lines 142-144: an iteration of autosave_loop that finds processed_posts
\* set takes the lock. (An iteration that finds it None only sleeps, which
\* changes nothing; once set, processed_posts is never None again.)
AutosaveAcquire ==
    /\ ~Exited
    /\ apc = "a_wait"
    /\ processed_posts # None
    /\ lock = "free"
    /\ lock' = "autosave"
    /\ apc' = "a_open"
    /\ UNCHANGED <<config, file, processed_posts, stack, signals, tickVars, loaded, saveHist, exitHist>>

\* Mutant of AutosaveOpen: a failed open raises out of save_processed_posts
\* and ends the autosave thread.
AutosaveOpen_Raises ==
    /\ ~Exited
    /\ apc = "a_open"
    /\ \E ok \in BOOLEAN :
          /\ SaveOpen(ok)
          /\ apc' = IF ok THEN "a_dump" ELSE "a_dead"
          /\ lock' = IF ok THEN lock ELSE "free"
    /\ UNCHANGED <<config, processed_posts, stack, signals, tickVars, loaded, exitHist>>

\* line 145, the open of save_processed_posts.
AutosaveOpen ==
    /\ ~Exited
    /\ apc = "a_open"
    /\ \E ok \in BOOLEAN :
          /\ SaveOpen(ok)
          /\ IF ok
             THEN /\ apc' = "a_dump"
                  /\ UNCHANGED lock
             ELSE /\ apc' = "a_wait"
                  /\ lock' = "free"
    /\ UNCHANGED <<config, processed_posts, stack, signals, tickVars, loaded, exitHist>>

\* Mutant of AutosaveDump: a failed dump raises out of save_processed_posts
\* and ends the autosave thread.
AutosaveDump_Raises ==
    /\ ~Exited
    /\ apc = "a_dump"
    /\ \E ok \in BOOLEAN, l \in ListsOf(processed_posts) :
          \E cut \in 0..(NumChunks(l) - 1) :
             /\ SaveDump(ok, l, cut)
             /\ apc' = IF ok THEN "a_wait" ELSE "a_dead"
    /\ lock' = "free"
    /\ UNCHANGED <<config, processed_posts, stack, signals, tickVars, loaded, exitHist>>

\* line 145, the dump of save_processed_posts, the release, and the sleep of
\* line 146.
AutosaveDump ==
    /\ ~Exited
    /\ apc = "a_dump"
    /\ \E ok \in BOOLEAN, l \in ListsOf(processed_posts) :
          \E cut \in 0..(NumChunks(l) - 1) : SaveDump(ok, l, cut)
    /\ lock' = "free"
    /\ apc' = "a_wait"
    /\ UNCHANGED <<config, processed_posts, stack, signals, tickVars, loaded, exitHist>>

\* ------------------------------------------------------------- shutdown
\* lines 162-163, 155-157: SIGTERM or SIGINT arrives; CPython calls
\* handle_shutdown on the main thread, on top of the frame it is executing.
\* The handler goes for the lock unless processed_posts is still None.
Signal ==
    /\ ~Exited
    /\ signals < MaxSignals
    /\ signals' = signals + 1
    /\ stack' = Append(stack, IF processed_posts # None THEN "h_acquire" ELSE "h_exit")
    /\ UNCHANGED <<config, file, processed_posts, lock, apc, tickVars, loaded, saveHist, exitHist>>

\* line 158: with lock (acquire). threading.Lock is not reentrant: the
\* handler waits also when a frame below it on the main thread holds the lock.
HandlerAcquire ==
    /\ Top = "h_acquire"
    /\ lock = "free"
    /\ lock' = "main"
    /\ stack' = SetTop("h_open")
    /\ UNCHANGED <<config, file, processed_posts, apc, signals, tickVars, loaded, saveHist, exitHist>>

\* line 159, the open of save_processed_posts.
HandlerOpen ==
    /\ Top = "h_open"
    /\ \E ok \in BOOLEAN :
          /\ SaveOpen(ok)
          /\ IF ok
             THEN /\ stack' = SetTop("h_dump")
                  /\ UNCHANGED lock
             ELSE /\ stack' = SetTop("h_exit")
                  /\ lock' = "free"
    /\ mainSaves' = mainSaves + 1
    /\ handlerOk' = FALSE
    /\ UNCHANGED <<config, processed_posts, apc, signals, tickVars, loaded>>

\* line 159, the dump of save_processed_posts, and the release.
HandlerDump ==
    /\ Top = "h_dump"
    /\ \E ok \in BOOLEAN, l \in ListsOf(processed_posts) :
          \E cut \in 0..(NumChunks(l) - 1) : SaveDump(ok, l, cut) /\ handlerOk' = ok
    /\ lock' = "free"
    /\ stack' = SetTop("h_exit")
    /\ UNCHANGED <<config, processed_posts, apc, signals, tickVars, loaded, mainSaves>>

\* Whether a frame of the main thread below the top one is in a with body.
LowerFrameLocked == \E i \in 1..(Len(stack) - 1) : stack[i] \in MainLockedPcs

\* line 160: sys.exit(0) raises SystemExit, which unwinds every frame of the
\* main thread (leaving a with body releases the lock). `except Exception`
\* (line 183) does not catch it; when main() was inside the try block, the
\* finally block of line 190 runs, otherwise the process ends.
SysExit ==
    /\ Top = "h_exit"
    /\ stack' = IF Base \in TryPcs THEN <<"f_acquire">> ELSE <<"exited">>
    /\ lock' = IF LowerFrameLocked THEN "free" ELSE lock
    /\ UNCHANGED <<config, file, processed_posts, apc, signals, tickVars, loaded, saveHist, exitHist>>

\* ------------------------------------------------------------------ spec
Next ==
    \/ MainLoad
    \/ FetchOk
    \/ FetchFail
    \/ NotifyOk
    \/ NotifyFail
    \/ MarkAcquire
    \/ MarkAdd
    \/ TickFailed
    \/ TickDone
    \/ FinallyAcquire
    \/ FinallyOpen
    \/ FinallyDump
    \/ AutosaveAcquire
    \/ AutosaveOpen
    \/ AutosaveDump
    \/ Signal
    \/ HandlerAcquire
    \/ HandlerOpen
    \/ HandlerDump
    \/ SysExit

Spec == Init /\ [][Next]_vars

\* The process while no signal arrives: main() and the autosave thread.
LiveNext ==
    \/ MainLoad
    \/ FetchOk
    \/ FetchFail
    \/ NotifyOk
    \/ NotifyFail
    \/ MarkAcquire
    \/ MarkAdd
    \/ TickFailed
    \/ TickDone
    \/ AutosaveAcquire
    \/ AutosaveOpen
    \/ AutosaveDump

\* Scheduling of the two threads. main() gets past the load of line 170 and
\* leaves the with body of lines 179-180 (one statement that does not block).
\* The autosave thread, which wakes every AUTOSAVE_INTERVAL (line 146) and
\* then waits on the lock, gets it: main() releases it after each add and
\* sleeps without it (lines 181, 188). Saves succeed again and again: an
\* open returns a file and a dump writes all of its text.
LiveFairness ==
    /\ WF_vars(MainLoad)
    /\ WF_vars(MarkAdd)
    /\ SF_vars(AutosaveAcquire)
    /\ SF_vars(AutosaveOpen /\ apc' = "a_dump")
    /\ SF_vars(AutosaveDump /\ ~saveFailed')

SpecLive == Init /\ [][LiveNext]_vars /\ LiveFairness

\* The flair filter alone: any keyword, any flairs, a fetch.
FilterInit ==
    /\ FLAIR_KEYWORD \in {FlairKeywordOf(e) : e \in KeywordEnvs}
    /\ flairs \in [1..NumPosts -> Flairs]
    /\ file = NoFile
    /\ processed_posts \in {{}, {IdOf(1)}}
    /\ tickStart = processed_posts
    /\ loaded = processed_posts
    /\ lock = "free"
    /\ stack = <<"fetch">>
    /\ apc = "a_wait"
    /\ signals = 0
    /\ fetch_attempt = 1
    /\ notify_attempt = 1
    /\ media_posts = <<>>
    /\ idx = 0
    /\ fetched = <<>>
    /\ invoked = <<>>
    /\ delivered = {}
    /\ saved = None
    /\ saveFailed = FALSE
    /\ mainSaves = 0
    /\ handlerOk = FALSE

FilterNext == FetchOk

SpecFilter == FilterInit /\ [][FilterNext]_vars

\* The state store alone: any set of ids in memory, any earlier file, one
\* save (the one of main()'s finally block).
StoreInit ==
    /\ FLAIR_KEYWORD = FlairKeywordOf(EnvUnset)
    /\ flairs = [n \in 1..NumPosts |-> FlairTable[n]]
    /\ file \in StartFiles
    /\ processed_posts \in SUBSET Ids
    /\ tickStart = processed_posts
    /\ loaded = processed_posts
    /\ lock = "free"
    /\ stack = <<"f_acquire">>
    /\ apc = "a_wait"
    /\ signals = 0
    /\ fetch_attempt = 1
    /\ notify_attempt = 1
    /\ media_posts = <<>>
    /\ idx = 0
    /\ fetched = <<>>
    /\ invoked = <<>>
    /\ delivered = {}
    /\ saved = None
    /\ saveFailed = FALSE
    /\ mainSaves = 0
    /\ handlerOk = FALSE

StoreNext ==
    \/ FinallyAcquire
    \/ FinallyOpen
    \/ FinallyDump

SpecStore == StoreInit /\ [][StoreNext]_vars

\* --------------------------------------------------------------- claims
\* The id of the submission the tick's last send_notification call was for.
LastInvoked == invoked[Len(invoked)]

\* main() is in the except block because send_notification ran out of
\* attempts (a fetch that ran out of attempts leaves `invoked` empty).
NotifyExhausted == Base = "except" /\ invoked # <<>>

\* Whether the next fetch would select the post with this id, were it listed.
Eligible(id) ==
    \E n \in 1..NumPosts :
        /\ IdOf(n) = id
        /\ fetch_new_posts(<<Submission(n)>>, processed_posts, FLAIR_KEYWORD) = <<Submission(n)>>

C2_AtLeastOnce ==
    processed_posts # None =>
        /\ (processed_posts \ loaded) \subseteq delivered
        /\ \A n \in 1..NumPosts :
              (/\ FlairMatches(FLAIR_KEYWORD, flairs[n])
               /\ IdOf(n) \notin loaded
               /\ IdOf(n) \notin delivered)
                  => (IdOf(n) \notin processed_posts /\ Eligible(IdOf(n)))

C2_Witness ==
    /\ processed_posts # None
    /\ (processed_posts \ loaded) # {}
    /\ NotifyExhausted
    /\ LastInvoked \notin delivered

\* The position of the post with this id in the listing the fetch returned.
PosInFetched(id) == CHOOSE i \in 1..Len(fetched) : fetched[i].id = id

\* main() is past a fetch that returned, in the same tick.
Delivering == Base \in {"notify", "acquire", "add", "poll"}

\* C3: within a tick, send_notification is called for the selected posts
\* from the back of the listing to its front: a post called earlier stands
\* later in the listing, the k-th call is for the k-th selected post counted
\* from the back, and a tick that ends normally has called for all of them.
C3_OldestFirst ==
    /\ \A i, j \in 1..Len(invoked) :
          i < j => PosInFetched(invoked[i]) > PosInFetched(invoked[j])
    /\ Delivering =>
          /\ Len(invoked) <= Len(media_posts)
          /\ \A k \in 1..Len(invoked) :
                invoked[k] = media_posts[Len(media_posts) + 1 - k].id
    /\ Base = "poll" => Len(invoked) = Len(media_posts)

C3_Witness == Base = "poll" /\ Len(invoked) >= 2

\* C4: a post whose id is in processed_posts when the tick's fetch is
\* filtered is not among the selected posts and send_notification is not
\* called for it; what was processed stays processed for the later ticks.
C4_ProcessedExcluded ==
    /\ \A k \in 1..Len(invoked) : invoked[k] \notin tickStart
    /\ Delivering => \A i \in 1..Len(media_posts) : media_posts[i].id \notin tickStart
    /\ processed_posts # None => (loaded \subseteq tickStart /\ tickStart \subseteq processed_posts)

C4_Witness ==
    /\ Delivering
    /\ invoked # <<>>
    /\ \E i \in 1..Len(fetched) :
          /\ fetched[i].id \in tickStart
          /\ fetched[i].id \notin loaded
          /\ FlairMatches(FLAIR_KEYWORD, fetched[i].flair)

\* The flair text, lower-cased, has the keyword as a run of consecutive
\* characters; an absent flair has the empty text.
ContainsKeyword(f) ==
    LET text == IF f.absent THEN <<>> ELSE f.text
        low == [k \in 1..Len(text) |-> LowerChar(text[k])]
    IN \E a \in 0..Len(low) : \E b \in a..Len(low) : SubSeq(low, a + 1, b) = FLAIR_KEYWORD

\* C5: an unseen post of the listing is selected if and only if its flair
\* text, lower-cased, contains the keyword (absent flair: empty text).
C5_FlairFilter ==
    \A i \in 1..Len(fetched) :
        fetched[i].id \notin tickStart =>
            ((\E j \in 1..Len(media_posts) : media_posts[j] = fetched[i])
                <=> ContainsKeyword(fetched[i].flair))

C5_Witness ==
    /\ \E j \in 1..Len(media_posts) :
          /\ Lower(media_posts[j].flair.text) # FLAIR_KEYWORD
          /\ media_posts[j].flair.text # Lower(media_posts[j].flair.text)
    /\ \E i \in 1..Len(fetched) :
          /\ fetched[i].flair.absent
          /\ fetched[i].id \notin tickStart
          /\ \A j \in 1..Len(media_posts) : media_posts[j] # fetched[i]

\* The handler waits for a lock that a frame below it on the main thread
\* holds: that frame cannot run before the handler returns.
HandlerBlockedForever == Top = "h_acquire" /\ lock = "main"

\* C6, as stated: whenever the signal arrives, the handler gets the lock (no
\* state in which it waits for ever is reachable).
C6_ShutdownNeverBlocks == ~HandlerBlockedForever

\* No context has opened (truncated) the file without having finished
\* writing it.
NoSaveOpen ==
    /\ apc # "a_dump"
    /\ \A i \in 1..Len(stack) : stack[i] \notin {"f_dump", "h_dump"}

\* Every context that is inside a with body holds the lock, and at most one
\* context is inside one.
LockDiscipline ==
    /\ apc \in {"a_open", "a_dump"} => lock = "autosave"
    /\ \A i \in 1..Len(stack) : stack[i] \in MainLockedPcs => lock = "main"
    /\ Cardinality({i \in 1..Len(stack) : stack[i] \in MainLockedPcs}) <= 1

\* A step in which a save writes its last chunk.
SaveCompleted == file' # file /\ file'.data # <<>> /\ ~saveFailed'

\* C7: every add to and every save of processed_posts happens with the lock
\* held, by one context at a time, and the set a save has written is the set
\* processed_posts holds at the instant the save completes.
C7_AtomicSaves ==
    /\ []LockDiscipline
    /\ [][SaveCompleted =>
            /\ processed_posts' = processed_posts
            /\ load_processed_posts(file') = processed_posts
            /\ saved' = processed_posts]_vars

C7_Witness ==
    /\ apc = "a_dump"
    /\ Top = "acquire"
    /\ processed_posts # {}

\* C8, as stated: at any point after a successful save, a load returns the
\* set the last successful save wrote.
C8_LoadAfterAnyCrash == saved # None => load_processed_posts(file) = saved

\* C8, amended: at any point where no save has the file open and the last
\* save attempt succeeded, a load returns the set that save wrote.
C8_LoadBetweenSaves ==
    (saved # None /\ ~saveFailed /\ NoSaveOpen) => load_processed_posts(file) = saved

C8_Witness ==
    /\ saved # None
    /\ saved # {}
    /\ ~saveFailed
    /\ NoSaveOpen
    /\ processed_posts # saved
    /\ signals = 0

\* C9: a save of the set S that completes without an I/O failure leaves a
\* file from which load returns S (any S, the empty set included).
C9_RoundTrip ==
    (Base = "exited" /\ saved # None /\ ~saveFailed)
        => load_processed_posts(file) = processed_posts

C9_Witness ==
    /\ Base = "exited"
    /\ saved # None
    /\ ~saveFailed
    /\ Cardinality(processed_posts) >= 2

\* The ids of the listed posts that were unseen and flair-matching.
SelectedIds ==
    {fetched[i].id : i \in {k \in 1..Len(fetched) :
        /\ fetched[k].id \notin tickStart
        /\ ContainsKeyword(fetched[k].flair)}}

\* C10: when a tick ends without an exception, processed_posts is its value
\* at the start of the tick plus the ids of the listed posts that were
\* unseen and flair-matching, and send_notification was called for exactly
\* those; a post whose flair does not match is never delivered nor added.
C10_TickResult ==
    /\ Base = "poll" =>
          /\ processed_posts = tickStart \cup SelectedIds
          /\ {invoked[k] : k \in 1..Len(invoked)} = SelectedIds
    /\ \A n \in 1..NumPosts :
          ~ContainsKeyword(flairs[n]) =>
              /\ IdOf(n) \notin delivered
              /\ processed_posts # None /\ IdOf(n) \notin loaded => IdOf(n) \notin processed_posts

C10_Witness ==
    /\ Base = "poll"
    /\ tickStart = {}
    /\ [i \in 1..Len(fetched) |-> fetched[i].id] = <<"3", "2", "1">>
    /\ invoked = <<"1", "3">>
    /\ processed_posts = {"1", "3"}

\* C11, as stated: when the process ends after a signal that arrived after
\* the startup load, save_processed_posts has run exactly once on the main
\* thread (the handler's save, and no further save).
C11_SavedExactlyOnce == (Exited /\ processed_posts # None) => mainSaves = 1

\* C12, as stated: when the process ends through the handler and the
\* handler's save has written the file, load returns the in-memory
\* processed_posts of the moment the process ends.
C12_GracefulExitPersists ==
    (Exited /\ handlerOk) => load_processed_posts(file) = processed_posts

\* A step of save_processed_posts on the main thread, and one on the
\* autosave thread, that ends the call.
MainSaveReturns ==
    /\ Len(stack') = Len(stack)
    /\ \/ Top \in {"f_open", "h_open"} /\ Top' \notin {"f_open", "f_dump", "h_open", "h_dump"}
       \/ Top \in {"f_dump", "h_dump"} /\ Top' # Top

AutosaveSaveReturns ==
    \/ apc = "a_open" /\ apc' \notin {"a_open", "a_dump"}
    \/ apc = "a_dump" /\ apc' # "a_dump"

\* C13: a save that fails returns like one that succeeds: the autosave loop
\* goes back to its sleep, the handler goes on to sys.exit, the finally block
\* ends main() normally, no frame is unwound and the lock is released;
\* processed_posts is unchanged by it (and only ever grows), and a save that
\* completes after a failed one writes all of processed_posts.
C13_FailedSaveSkipped ==
    [][/\ (AutosaveSaveReturns /\ saveFailed') =>
             /\ apc' = "a_wait"
             /\ lock' = "free"
             /\ processed_posts' = processed_posts
       /\ (MainSaveReturns /\ saveFailed') =>
             /\ Top' = (IF Top \in {"h_open", "h_dump"} THEN "h_exit" ELSE "exited")
             /\ lock' = "free"
             /\ processed_posts' = processed_posts
       /\ processed_posts # None => processed_posts \subseteq processed_posts'
       /\ (saveFailed /\ SaveCompleted) =>
             /\ load_processed_posts(file') = processed_posts
             /\ processed_posts' = processed_posts]_vars

\* An autosave has failed after ids were added, the loop is back at its
\* sleep, and the file lacks an id that memory holds.
C13_Witness ==
    /\ saveFailed
    /\ apc = "a_wait"
    /\ ~Exited
    /\ processed_posts # None
    /\ processed_posts # loaded
    /\ load_processed_posts(file) # processed_posts

\* main() is in the except block because fetch_new_posts ran out of attempts.
FetchExhausted == Base = "except" /\ fetch_attempt = FETCH_ATTEMPTS

\* C14: a tick makes at most FETCH_ATTEMPTS attempts of fetch_new_posts; the
\* except block is reached either after exactly that many failed attempts,
\* with send_notification not called in the tick, or after a
\* send_notification that ran out of attempts. After the failed fetch
\* processed_posts is what it was when the tick began, main() is still
\* running, and its next step begins the next tick with a first attempt.
C14_FetchExhausted ==
    /\ fetch_attempt \in 1..FETCH_ATTEMPTS
    /\ Base = "except" => (invoked = <<>> <=> fetch_attempt = FETCH_ATTEMPTS)
    /\ FetchExhausted =>
          /\ invoked = <<>>
          /\ processed_posts = tickStart
          /\ ~Exited
          /\ Top = "except" =>
                ENABLED (TickFailed /\ Top' = "fetch" /\ fetch_attempt' = 1
                           /\ processed_posts' = processed_posts)

\* A later tick's fetch has run out of attempts, after deliveries of an
\* earlier tick.
C14_Witness == FetchExhausted /\ Top = "except" /\ delivered # {}

\* C15: while no signal has been delivered main() is at the load or inside
\* the loop of lines 173-188, never in the finally block and never ended;
\* from the except block, and from the sleep that ends a tick, its next step
\* begins another tick.
C15_LoopNeverEnds ==
    /\ signals = 0 => (Len(stack) = 1 /\ Base \in TryPcs \cup {"load"})
    /\ Top = "except" => ENABLED (TickFailed /\ Top' = "fetch")
    /\ Top = "poll" => ENABLED (TickDone /\ Top' = "fetch")

\* A tick has raised while delivering, after an earlier delivery, and no
\* signal has arrived.
C15_Witness ==
    /\ signals = 0
    /\ Top = "except"
    /\ Len(invoked) = 1
    /\ delivered # {}

\* The ids of the submissions the tick selected, in the order of the for loop.
BatchIds == [k \in 1..Len(media_posts) |-> Reversed(media_posts)[k].id]

C17_OnlyPollerGrows ==
    /\ [](processed_posts # None => processed_posts \subseteq loaded \cup delivered)
    /\ [][processed_posts' # processed_posts =>
            \/ /\ processed_posts = None
               /\ Top = "load"
               /\ processed_posts' = load_processed_posts(file)
               /\ loaded' = processed_posts'
            \/ /\ processed_posts # None
               /\ Top = "add"
               /\ Top' \in {"notify", "poll"}
               /\ Len(stack') = Len(stack)
               /\ lock = "main"
               /\ apc' = apc
               /\ invoked # <<>>
               /\ LastInvoked = Current.id
               /\ Current.id \in delivered
               /\ processed_posts' = processed_posts \cup {Current.id}]_vars

\* Something was loaded, and main() has added an id to it.
C17_Witness ==
    /\ processed_posts # None
    /\ loaded # {}
    /\ (processed_posts \ loaded) # {}
    /\ Top \in {"notify", "poll"}

\* A fetch_new_posts or send_notification call of main() is in flight (a
\* handler may be running on top of it).
CallInFlight == Base \in {"fetch", "notify"}

\* C18: the lock is held exactly inside the with bodies of lines 145, 159,
\* 179-180 and 194, which hold only the add and the saves; main() does not
\* hold it at line 176 nor at line 178. So while such a call is in flight the
\* lock is free unless the autosave thread or the handler is inside its own
\* save, and an autosave iteration or a handler that goes for the lock while
\* it is free gets it.
C18_NoLockAcrossCalls ==
    /\ lock = "main" <=> \E i \in 1..Len(stack) : stack[i] \in MainLockedPcs
    /\ lock = "autosave" <=> apc \in {"a_open", "a_dump"}
    /\ CallInFlight =>
          /\ lock = "main" => \E i \in 2..Len(stack) : stack[i] \in {"h_open", "h_dump"}
          /\ (Len(stack) = 1 /\ apc = "a_wait" /\ processed_posts # None) =>
                ENABLED AutosaveAcquire
          /\ (Len(stack) = 2 /\ Top = "h_acquire" /\ apc = "a_wait") =>
                ENABLED HandlerAcquire

\* The handler goes for the lock on top of a send_notification call that is
\* at its second attempt.
C18_Witness ==
    /\ Base = "notify"
    /\ notify_attempt = 2
    /\ Len(stack) = 2
    /\ Top = "h_acquire"
    /\ apc = "a_wait"

\* C19: the autosave thread is always in its loop, also after a save that
\* failed, and keeps starting saves; while no signal arrives and saves
\* succeed again and again, every id in processed_posts comes to be in the
\* file.
C19_AutosaveCatchesUp ==
    /\ [](apc \in {"a_wait", "a_open", "a_dump"})
    /\ []<>(apc = "a_open")
    /\ \A id \in Ids :
          (processed_posts # None /\ id \in processed_posts)
             ~> (id \in load_processed_posts(file))

\* A tick has failed, and the file holds an id that main() added during the
\* run: an autosave has written it.
C19_Witness ==
    /\ processed_posts # None
    /\ apc = "a_wait"
    /\ ~saveFailed
    /\ saved # None
    /\ \E id \in processed_posts \ loaded : id \in load_processed_posts(file)
    /\ Base = "except"

\* C20: send_notification is never called for a submission whose id a call
\* of this run has already returned for; whenever main() is about to fetch
\* (and when a tick has just ended) every id a call has returned for is in
\* processed_posts, and while the for loop runs only the id of the call that
\* just returned can be missing.
C20_NoSecondDelivery ==
    /\ Base = "notify" => Current.id \notin delivered
    /\ Base \in {"fetch", "poll", "except"} => delivered \subseteq processed_posts
    /\ Base \in {"acquire", "add"} => delivered \ processed_posts = {Current.id}
    /\ Base = "notify" => delivered \subseteq processed_posts

\* A fetch has listed again a post delivered in an earlier tick, and the for
\* loop is at another post.
C20_Witness ==
    /\ Base = "notify"
    /\ \E i \in 1..Len(fetched) : fetched[i].id \in delivered \cap tickStart
    /\ Current.id \notin delivered

====
